---- MODULE Spec2Model ----
(***************************************************************************)
(* The agent driver of src/main.py: two operator prompts, an optional      *)
(* planning invocation, then a loop that reads agent_state.json, invokes   *)
(* the agent with the record's next_step_prompt and stops when the record  *)
(* it read says "completed".  The agent subprocess is the environment: it  *)
(* rewrites the state file while it runs and exits with some output.       *)
(***************************************************************************)
EXTENDS Integers, Sequences, FiniteSets, TLC

VARIABLES
    pc,            \* the driver's position in the script
    linear_issue,  \* main.py:52, the task description
    NEED_PLAN,     \* main.py:53
    continue_flag, \* main.py:59
    iteration,     \* main.py:60
    state,         \* main.py:63, the value check_state() returned
    output,        \* main.py:66, the text run_claude_code returned
    file,          \* the content of agent_state/agent_state.json
    inflight,      \* agent subprocesses started and not yet exited
    fault,         \* the exception that ended the script, "none" while it runs
    answer,        \* the operator's reply to the second prompt
    calls,         \* every subprocess started: its prompt and the iteration
    reads,         \* every call of check_state: its result and the loop pass
    returncode,    \* exit status of the last subprocess (never read by the code)
    dirty          \* the agent has written the state file since the last read

vars == <<pc, linear_issue, NEED_PLAN, continue_flag, iteration, state, output,
          file, inflight, fault, answer, calls, reads, returncode, dirty>>

\* Bound on the loop passes explored.
MaxIter == 3

----------------------------------------------------------------------------
\* Data

\* A key that a JSON object does not have.
NoField == "<no field>"

Prompts == {"run tests", "deploy"}

Statuses == {"pending", "in_progress", "completed"}

Tasks == {"Fix bug #42", "run tests"}

Outputs == {"", "ok"}

ExitCodes == {0, 1}

\* What the path agent_state/agent_state.json can hold: nothing, bytes that
\* do not decode as text, text that is not JSON, or a JSON value.
FileContents ==
    [kind : {"missing", "undecodable", "notjson", "null", "array"},
     prompt : {NoField}, status : {NoField}]
    \cup
    [kind : {"object"},
     prompt : Prompts \cup {NoField}, status : Statuses \cup {NoField}]

\* Python values that json.load can produce here.
PyNone == [type |-> "None", prompt |-> NoField, status |-> NoField]

PyList == [type |-> "list", prompt |-> NoField, status |-> NoField]

PyDict(p, s) == [type |-> "dict", prompt |-> p, status |-> s]

NoState == [type |-> "unset", prompt |-> NoField, status |-> NoField]

----------------------------------------------------------------------------
\* check_state, main.py:40-46

\* open(...) and json.load(f): the exception raised, or the value loaded.
JsonLoad(f) ==
    CASE f.kind = "missing"     -> [exc |-> "FileNotFoundError", value |-> PyNone]
      [] f.kind = "undecodable" -> [exc |-> "UnicodeDecodeError", value |-> PyNone]
      [] f.kind = "notjson"     -> [exc |-> "JSONDecodeError", value |-> PyNone]
      [] f.kind = "null"        -> [exc |-> "none", value |-> PyNone]
      [] f.kind = "array"       -> [exc |-> "none", value |-> PyList]
      [] f.kind = "object"      -> [exc |-> "none", value |-> PyDict(f.prompt, f.status)]

\* The except clause of check_state.
Caught(exc) == exc \in {"FileNotFoundError", "JSONDecodeError"}

check_state(f) ==
    LET r == JsonLoad(f)
    IN  IF r.exc = "none" THEN r
        ELSE IF Caught(r.exc) THEN [exc |-> "none", value |-> PyNone]
        ELSE r

\* state[key]: the exception of the subscript, or "none".
Subscript(v, key) ==
    IF v.type # "dict" THEN "TypeError"
    ELSE IF (IF key = "next_step_prompt" THEN v.prompt ELSE v.status) = NoField
         THEN "KeyError"
    ELSE "none"

----------------------------------------------------------------------------
\* The operator's reply, main.py:53

Whitespace == {" ", "\t"}

Answers ==
    { <<"t", "r", "u", "e">>, <<" ", "T", "r", "u", "e", "\t">>,
      <<"T", "R", "U", "E">>, <<"f", "a", "l", "s", "e">>,
      <<"y", "e", "s">>, <<"y">>, <<"1">>, <<>> }

RECURSIVE LStrip(_)
LStrip(s) == IF s # <<>> /\ Head(s) \in Whitespace THEN LStrip(Tail(s)) ELSE s

RECURSIVE RStrip(_)
RStrip(s) ==
    IF s # <<>> /\ s[Len(s)] \in Whitespace
    THEN RStrip(SubSeq(s, 1, Len(s) - 1)) ELSE s

Strip(s) == RStrip(LStrip(s))

LowerChar(c) ==
    CASE c = "T" -> "t" [] c = "R" -> "r" [] c = "U" -> "u" [] c = "E" -> "e"
      [] OTHER -> c

Lower(s) == [i \in 1..Len(s) |-> LowerChar(s[i])]

\* A comparison that lower-cases the reply but does not trim it.
NeedPlan_NoStrip(a) == Lower(a) = <<"t", "r", "u", "e">>

NeedPlan(a) == Lower(Strip(a)) = <<"t", "r", "u", "e">>

----------------------------------------------------------------------------
\* Initial state: the script has not asked anything yet; the state file is
\* whatever an earlier run left.

Init ==
    /\ pc = "ask_task"
    /\ linear_issue = ""
    /\ NEED_PLAN = FALSE
    /\ continue_flag = FALSE
    /\ iteration = 0
    /\ state = NoState
    /\ output = ""
    /\ file \in FileContents
    /\ inflight = 0
    /\ fault = "none"
    /\ answer = <<>>
    /\ calls = <<>>
    /\ reads = <<>>
    /\ returncode = 0
    /\ dirty = FALSE

----------------------------------------------------------------------------
\* run_claude_code, main.py:29-38

\* A planning call that passes the task as it is.
MakePlanPrompt_Bare(task) == task

\* The planning instruction, main.py:57.
MakePlanPrompt(task) == "/make_plan " \o task

\* Where the script continues after a call of run_claude_code returns.
ReturnPc(site) == IF site = "plan" THEN "init_loop" ELSE "status"

\* A start that does not wait for the subprocess (Popen instead of run).
RunPc_NoWait(site) == ReturnPc(site)

\* subprocess.run blocks: the script stays inside the call until the
\* subprocess has exited (main.py:37).
RunPc(site) == IF site = "plan" THEN "plan_run" ELSE "iter_run"

\* A start that returns at once, leaving the subprocess running.
SubprocessRun_Detached(prompt, site) ==
    /\ calls' = Append(calls, [prompt |-> prompt, site |-> site,
                               iteration |-> iteration])
    /\ inflight' = inflight + 1
    /\ pc' = ReturnPc(site)

\* main.py:30-37: build the command line around the prompt and start it.
SubprocessRun(prompt, site) ==
    /\ calls' = Append(calls, [prompt |-> prompt, site |-> site,
                               iteration |-> iteration])
    /\ inflight' = inflight + 1
    /\ pc' = RunPc(site)

----------------------------------------------------------------------------
\* The script, main.py:52-72

\* main.py:52
ReadTask ==
    /\ pc = "ask_task"
    /\ \E t \in Tasks : linear_issue' = t
    /\ pc' = "ask_plan"
    /\ UNCHANGED <<dirty, NEED_PLAN, continue_flag, iteration, state, output, file,
                   inflight, fault, answer, calls, reads, returncode>>

\* A branch that plans whatever the flag says.
PlanBranch_Always(np) == "plan_call"

\* main.py:55
PlanBranch(np) == IF np THEN "plan_call" ELSE "init_loop"

\* main.py:53-55
ReadNeedPlan ==
    /\ pc = "ask_plan"
    /\ \E a \in Answers :
         /\ answer' = a
         /\ NEED_PLAN' = NeedPlan(a)
         /\ pc' = PlanBranch(NeedPlan(a))
    /\ UNCHANGED <<dirty, linear_issue, continue_flag, iteration, state, output, file,
                   inflight, fault, calls, reads, returncode>>

\* main.py:56-57, up to the start of the subprocess
PlanCall ==
    /\ pc = "plan_call"
    /\ SubprocessRun(MakePlanPrompt(linear_issue), "plan")
    /\ UNCHANGED <<dirty, linear_issue, NEED_PLAN, continue_flag, iteration, state,
                   output, file, fault, answer, reads, returncode>>

\* A counter that starts at one.
InitLoop_FromOne ==
    /\ pc = "init_loop"
    /\ continue_flag' = TRUE
    /\ iteration' = 1
    /\ pc' = "loop"
    /\ UNCHANGED <<dirty, linear_issue, NEED_PLAN, state, output, file,
                   inflight, fault, answer, calls, reads, returncode>>

\* main.py:59-60
InitLoop ==
    /\ pc = "init_loop"
    /\ continue_flag' = TRUE
    /\ iteration' = 0
    /\ pc' = "loop"
    /\ UNCHANGED <<dirty, linear_issue, NEED_PLAN, state, output, file, inflight,
                   fault, answer, calls, reads, returncode>>

\* A loop with a circuit breaker: after two passes it stops by itself.
LoopPass_Capped ==
    /\ pc = "loop"
    /\ continue_flag
    /\ iteration < MaxIter
    /\ IF iteration >= 2
       THEN /\ pc' = "done"
            /\ UNCHANGED <<iteration, reads, state, fault, dirty>>
       ELSE /\ iteration' = iteration + 1
            /\ LET r == check_state(file)
               IN  /\ reads' = Append(reads, [exc |-> r.exc, value |-> r.value,
                                              iteration |-> iteration',
                                              dirty |-> dirty])
                   /\ IF r.exc = "none"
                      THEN /\ state' = r.value
                           /\ pc' = "iter_call"
                           /\ fault' = fault
                      ELSE /\ state' = state
                           /\ pc' = "fault"
                           /\ fault' = r.exc
            /\ dirty' = FALSE
    /\ UNCHANGED <<linear_issue, NEED_PLAN, continue_flag, output, file,
                   inflight, answer, calls, returncode>>

\* A read that opens the file for writing as well and leaves it empty.
LoopPass_Truncating ==
    /\ pc = "loop"
    /\ continue_flag
    /\ iteration < MaxIter
    /\ iteration' = iteration + 1
    /\ LET r == check_state(file)
       IN  /\ reads' = Append(reads, [exc |-> r.exc, value |-> r.value,
                                      iteration |-> iteration',
                                      dirty |-> dirty])
           /\ IF r.exc = "none"
              THEN /\ state' = r.value
                   /\ pc' = "iter_call"
                   /\ fault' = fault
              ELSE /\ state' = state
                   /\ pc' = "fault"
                   /\ fault' = r.exc
    /\ file' = IF file.kind = "missing" THEN file
               ELSE [kind |-> "notjson", prompt |-> NoField, status |-> NoField]
    /\ dirty' = FALSE
    /\ UNCHANGED <<linear_issue, NEED_PLAN, continue_flag, output,
                   inflight, answer, calls, returncode>>

\* main.py:61-63: the loop test holds, the counter goes up, the state is read.
LoopPass ==
    /\ pc = "loop"
    /\ continue_flag
    /\ iteration < MaxIter
    /\ iteration' = iteration + 1
    /\ LET r == check_state(file)
       IN  /\ reads' = Append(reads, [exc |-> r.exc, value |-> r.value,
                                      iteration |-> iteration',
                                      dirty |-> dirty])
           /\ IF r.exc = "none"
              THEN /\ state' = r.value
                   /\ pc' = "iter_call"
                   /\ fault' = fault
              ELSE /\ state' = state
                   /\ pc' = "fault"
                   /\ fault' = r.exc
    /\ dirty' = FALSE
    /\ UNCHANGED <<linear_issue, NEED_PLAN, continue_flag, output, file,
                   inflight, answer, calls, returncode>>

\* main.py:61: the loop test fails and the script ends.
LoopExit ==
    /\ pc = "loop"
    /\ ~continue_flag
    /\ pc' = "done"
    /\ UNCHANGED <<dirty, linear_issue, NEED_PLAN, continue_flag, iteration, state,
                   output, file, inflight, fault, answer, calls, reads,
                   returncode>>

\* A loop that tests the status before it invokes: a completed record goes
\* to the status check without a call.
IterCall_SkipWhenCompleted ==
    /\ pc = "iter_call"
    /\ LET e == Subscript(state, "next_step_prompt")
       IN  IF e # "none"
           THEN /\ pc' = "fault"
                /\ fault' = e
                /\ UNCHANGED <<calls, inflight>>
           ELSE IF state.status = "completed"
           THEN /\ pc' = "status"
                /\ fault' = fault
                /\ UNCHANGED <<calls, inflight>>
           ELSE /\ SubprocessRun(state.prompt, "iter")
                /\ fault' = fault
    /\ UNCHANGED <<dirty, linear_issue, NEED_PLAN, continue_flag, iteration,
                   state, output, file, answer, reads, returncode>>

\* A loop call that passes the task description instead of the record's
\* prompt.
IterCall_Task ==
    /\ pc = "iter_call"
    /\ LET e == Subscript(state, "next_step_prompt")
       IN  IF e = "none"
           THEN /\ SubprocessRun(linear_issue, "iter")
                /\ fault' = fault
           ELSE /\ pc' = "fault"
                /\ fault' = e
                /\ UNCHANGED <<calls, inflight>>
    /\ UNCHANGED <<dirty, linear_issue, NEED_PLAN, continue_flag, iteration,
                   state, output, file, answer, reads, returncode>>

\* main.py:65-66, up to the start of the subprocess
IterCall ==
    /\ pc = "iter_call"
    /\ LET e == Subscript(state, "next_step_prompt")
       IN  IF e = "none"
           THEN /\ SubprocessRun(state.prompt, "iter")
                /\ fault' = fault
           ELSE /\ pc' = "fault"
                /\ fault' = e
                /\ UNCHANGED <<calls, inflight>>
    /\ UNCHANGED <<dirty, linear_issue, NEED_PLAN, continue_flag, iteration, state,
                   output, file, answer, reads, returncode>>

\* main.py:70-72 with the status re-read from the file.
StatusCheck_Reread ==
    /\ pc = "status"
    /\ LET r == check_state(file)
           e == IF r.exc = "none" THEN Subscript(r.value, "status") ELSE r.exc
       IN  /\ reads' = Append(reads, [exc |-> r.exc, value |-> r.value,
                                      iteration |-> iteration,
                                      dirty |-> dirty])
           /\ state' = IF r.exc = "none" THEN r.value ELSE state
           /\ IF e # "none"
              THEN /\ pc' = "fault"
                   /\ fault' = e
                   /\ continue_flag' = continue_flag
              ELSE /\ pc' = "loop"
                   /\ fault' = fault
                   /\ continue_flag' = (r.value.status # "completed")
    /\ dirty' = FALSE
    /\ UNCHANGED <<linear_issue, NEED_PLAN, iteration, output, file, inflight,
                   answer, calls, returncode>>

\* main.py:70-72: the status of the value read at line 63.
StatusCheck ==
    /\ pc = "status"
    /\ LET e == Subscript(state, "status")
       IN  IF e # "none"
           THEN /\ pc' = "fault"
                /\ fault' = e
                /\ continue_flag' = continue_flag
           ELSE /\ pc' = "loop"
                /\ fault' = fault
                /\ continue_flag' = (state.status # "completed")
    /\ UNCHANGED <<dirty, linear_issue, NEED_PLAN, iteration, state, output, file,
                   inflight, answer, calls, reads, returncode>>

----------------------------------------------------------------------------
\* The agent subprocess

\* While it runs, the agent may rewrite or remove the state file
\* (main.py:35 allows it Write, Edit, Remove and Bash).
AgentWrite ==
    /\ inflight > 0
    /\ \E f \in FileContents : f # file /\ file' = f
    /\ dirty' = TRUE
    /\ UNCHANGED <<pc, linear_issue, NEED_PLAN, continue_flag, iteration,
                   state, output, inflight, fault, answer, calls, reads,
                   returncode>>

\* An exit handled as by subprocess.run(..., check=True): a non-zero exit
\* status raises CalledProcessError in the script.
AgentExit_Check ==
    /\ inflight > 0
    /\ inflight' = inflight - 1
    /\ \E rc \in ExitCodes, out \in Outputs :
         /\ returncode' = rc
         /\ IF pc \in {"plan_run", "iter_run"}
            THEN IF rc = 0
                 THEN /\ pc' = ReturnPc(calls[Len(calls)].site)
                      /\ output' = out
                      /\ fault' = fault
                 ELSE /\ pc' = "fault"
                      /\ output' = output
                      /\ fault' = "CalledProcessError"
            ELSE UNCHANGED <<pc, output, fault>>
    /\ UNCHANGED <<dirty, linear_issue, NEED_PLAN, continue_flag, iteration, state,
                   file, answer, calls, reads>>

\* The subprocess exits; a script waiting in subprocess.run gets its
\* standard output (main.py:37-38, 57, 66).
AgentExit ==
    /\ inflight > 0
    /\ inflight' = inflight - 1
    /\ \E rc \in ExitCodes, out \in Outputs :
         /\ returncode' = rc
         /\ IF pc \in {"plan_run", "iter_run"}
            THEN /\ pc' = ReturnPc(calls[Len(calls)].site)
                 /\ output' = out
            ELSE UNCHANGED <<pc, output>>
    /\ UNCHANGED <<dirty, linear_issue, NEED_PLAN, continue_flag, iteration, state,
                   file, fault, answer, calls, reads>>

Next ==
    \/ ReadTask
    \/ ReadNeedPlan
    \/ PlanCall
    \/ InitLoop
    \/ LoopPass
    \/ LoopExit
    \/ IterCall
    \/ StatusCheck
    \/ AgentWrite
    \/ AgentExit

Spec == Init /\ [][Next]_vars

----------------------------------------------------------------------------
\* Properties

\* The calls made at main.py:66 in loop pass i.
IterCallsOf(i) ==
    {k \in 1..Len(calls) : calls[k].site = "iter" /\ calls[k].iteration = i}

\* The calls of check_state made in loop pass i.
ReadsOf(i) == {k \in 1..Len(reads) : reads[k].iteration = i}

IsRecord(v) == v.type = "dict"

\* C1: when check_state returned None (file missing or not JSON) the script
\* does not end with an unhandled exception.
C1_AbsentIsHandled == state = PyNone => pc # "fault"

\* C2: a pass that read an in_progress record with a prompt, and whose
\* invocation left a completed record in the file, is the last one: exactly
\* one invocation was made for it, none follows, and the script does not end
\* with an exception.
C2_CompletionFromRereadState ==
    \A i \in 1..Len(reads) :
       ( /\ i < Len(reads)
         /\ IsRecord(reads[i].value)
         /\ reads[i].value.status = "in_progress"
         /\ reads[i].value.prompt # NoField
         /\ IsRecord(reads[i + 1].value)
         /\ reads[i + 1].value.status = "completed" )
       => /\ Cardinality(IterCallsOf(i)) = 1
          /\ IterCallsOf(i + 1) = {}
          /\ pc # "fault"

\* C3: check_state never raises; it returns None unless the file holds a
\* JSON object, and then it returns that object.
C3_ReaderNeverFails ==
    /\ fault \notin {"FileNotFoundError", "JSONDecodeError", "UnicodeDecodeError"}
    /\ pc = "iter_call" =>
          state = IF file.kind = "object"
                  THEN PyDict(file.prompt, file.status) ELSE PyNone

\* C4: a pass that read a record with status pending or in_progress (with
\* or without next_step_prompt) makes exactly one invocation before the next
\* state read or the end of the script, and never two.
C4_OneInvocationPerCheck ==
    \A i \in 1..Len(reads) :
       ( /\ IsRecord(reads[i].value)
         /\ reads[i].value.status \in {"pending", "in_progress"} )
       => /\ Cardinality(IterCallsOf(i)) <= 1
          /\ (i < Len(reads) \/ pc \in {"fault", "done"})
                => Cardinality(IterCallsOf(i)) = 1

\* C5: once the script holds a record whose status is completed it does not
\* end with an exception, and Done is terminal: nothing runs and no step is
\* left.
C5_CompletedReachesDone ==
    /\ (IsRecord(state) /\ state.status = "completed") => pc # "fault"
    /\ pc = "done" => (inflight = 0 /\ fault = "none" /\ ~ENABLED Next)

\* C6: at most one agent subprocess is in flight, and while one is the
\* script is blocked inside subprocess.run.
C6_OneSubprocessAtATime ==
    /\ inflight <= 1
    /\ inflight = 1 => pc \in {"plan_run", "iter_run"}

C6_Witness == inflight = 1 /\ Len(calls) = 3 /\ calls[1].site = "plan"

\* C7: every call of check_state is made while no agent subprocess runs.
C7_ReadsBetweenInvocations ==
    [][Len(reads') # Len(reads) => (inflight = 0 /\ inflight' = 0)]_vars

C7_Witness ==
    /\ Len(reads) = 2
    /\ Len(calls) >= 1
    /\ reads[2].value # reads[1].value

\* C8: when the reply declines the plan, no planning call is made, and the
\* first call of the run, if any, is the loop's, with the prompt of the
\* record read from the state file.
C8_DeclineSkipsPlanning ==
    (pc \notin {"ask_task", "ask_plan"} /\ ~NEED_PLAN)
    => /\ pc \notin {"plan_call", "plan_run"}
       /\ \A k \in 1..Len(calls) : calls[k].site # "plan"
       /\ calls # <<>> =>
             /\ reads # <<>>
             /\ calls[1].iteration = 1
             /\ calls[1].prompt = reads[1].value.prompt
             /\ calls[1].prompt \in Prompts

C8_Witness ==
    /\ ~NEED_PLAN
    /\ answer = <<"y", "e", "s">>
    /\ linear_issue = "Fix bug #42"
    /\ pc = "iter_run"
    /\ Len(calls) = 1
    /\ calls[1].prompt = "deploy"

\* C9: when a plan is requested, exactly one planning call is made, with
\* "/make_plan " followed by the task, before any state read and any call of
\* the loop; when it returns the script enters the loop whatever it printed.
C9_PlanOnceThenIterate ==
    /\ [](pc \in {"plan_call", "plan_run"} =>
             (NEED_PLAN /\ reads = <<>> /\ Len(calls) = IF pc = "plan_run" THEN 1 ELSE 0))
    /\ []((NEED_PLAN /\ pc \notin {"ask_task", "ask_plan", "plan_call"}) =>
             /\ calls # <<>>
             /\ calls[1].site = "plan"
             /\ calls[1].prompt = "/make_plan " \o linear_issue
             /\ \A k \in 2..Len(calls) : calls[k].site = "iter")
    /\ [][(pc = "plan_run" /\ pc' # pc) => pc' = "init_loop"]_vars

C9_Witness ==
    /\ NEED_PLAN
    /\ pc = "iter_run"
    /\ Len(calls) = 2
    /\ output = ""
    /\ returncode = 1

\* C10: check_state is called exactly once in each loop pass; no step of
\* the script changes the state file, only a running agent does; and the
\* value held in state changes only by a read and is the one last read
\* wherever it is used.
C10_ReadOncePerIteration ==
    /\ [](\A i \in 1..iteration : Cardinality(ReadsOf(i)) = 1)
    /\ [](Len(reads) = iteration)
    /\ [](pc \in {"iter_call", "iter_run", "status"} =>
             state = reads[Len(reads)].value)
    /\ [][file' # file => (inflight > 0 /\ pc' = pc /\ state' = state)]_vars
    /\ [][state' # state => Len(reads') = Len(reads) + 1]_vars

C10_Witness ==
    /\ iteration = 2
    /\ pc = "status"
    /\ state # JsonLoad(file).value

\* C11: the exit of the subprocess, whatever its exit status and however
\* empty its output, raises nothing and starts no retry: the script takes
\* the text and goes on to the statement after the call; and what the
\* status check then does is decided by the record held in state alone.
C11_ExitStatusIgnored ==
    /\ [][inflight' < inflight =>
             /\ fault' = "none"
             /\ calls' = calls
             /\ output' \in Outputs
             /\ pc' = IF pc = "plan_run" THEN "init_loop" ELSE "status"]_vars
    /\ [][(pc = "status" /\ pc' # pc) =>
             /\ calls' = calls
             /\ pc' = IF IsRecord(state) /\ state.status # NoField
                      THEN "loop" ELSE "fault"
             /\ pc' = "loop" => continue_flag' = (state.status # "completed")]_vars

C11_Witness ==
    /\ pc = "loop"
    /\ iteration = 1
    /\ continue_flag
    /\ returncode = 1
    /\ output = ""

\* C12: a call of check_state made with no write to the state file since
\* the call before it returns what that call returned, None for None and
\* the same fields for a record; and a call of check_state leaves the file
\* as it was.
C12_ReadIdempotent ==
    /\ [](\A i \in 2..Len(reads) :
             ~reads[i].dirty =>
                 /\ reads[i].exc = reads[i - 1].exc
                 /\ reads[i].value.type = reads[i - 1].value.type
                 /\ reads[i].value.prompt = reads[i - 1].value.prompt
                 /\ reads[i].value.status = reads[i - 1].value.status)
    /\ [][Len(reads') # Len(reads) => file' = file]_vars

C12_Witness ==
    /\ Len(reads) = 3
    /\ ~reads[2].dirty
    /\ IsRecord(reads[2].value)
    /\ reads[3].dirty
    /\ reads[3].value = PyNone

\* C13: a record that lacks next_step_prompt or status does not end the
\* script with the KeyError of the subscript, and no call is started
\* without a prompt.
C13_MissingFieldHandled ==
    /\ fault # "KeyError"
    /\ \A k \in 1..Len(calls) : calls[k].prompt # NoField

\* C14: every call made by the loop carries the next_step_prompt of the
\* record read in the same pass, as it stands in the record, whatever the
\* task description is.
C14_PromptFromLastRead ==
    \A k \in 1..Len(calls) :
       calls[k].site = "iter" =>
          /\ ReadsOf(calls[k].iteration) # {}
          /\ \A j \in ReadsOf(calls[k].iteration) :
                /\ IsRecord(reads[j].value)
                /\ calls[k].prompt = reads[j].value.prompt
          /\ calls[k].prompt \in Prompts

C14_Witness ==
    /\ linear_issue = "run tests"
    /\ Len(calls) = 3
    /\ calls[1].site = "plan"
    /\ calls[2].prompt = "run tests"
    /\ calls[3].prompt = "deploy"
    /\ file.kind = "object" /\ file.prompt = "run tests"

\* The calls made by the loop so far.
IterCalls == {k \in 1..Len(calls) : calls[k].site = "iter"}

C16_InvokeBeforeCompletionCheck ==
    /\ pc = "done" =>
          /\ iteration >= 1
          /\ state = reads[Len(reads)].value
          /\ state.status = "completed"
          /\ Cardinality(IterCallsOf(iteration)) = 1
          /\ \A k \in IterCallsOf(iteration) : calls[k].prompt = state.prompt
    /\ ( /\ reads # <<>>
         /\ pc # "iter_call"
         /\ IsRecord(reads[1].value)
         /\ reads[1].value.status = "completed"
         /\ reads[1].value.prompt # NoField )
       => /\ Len(reads) = 1
          /\ Cardinality(IterCallsOf(1)) = 1
          /\ \A k \in IterCallsOf(1) : calls[k].prompt = reads[1].value.prompt
          /\ pc \in {"iter_run", "status", "loop", "done"}

C16_Witness ==
    /\ pc = "done"
    /\ iteration = 1
    /\ Len(calls) = 1
    /\ calls[1].prompt = "deploy"
    /\ file.kind = "object"
    /\ file.status = "in_progress"

\* C17: NEED_PLAN is true exactly for the replies that read "true" once
\* trimmed and lower-cased ("true", " True<tab>", "TRUE"); "false", "yes",
\* "y", "1" and the empty reply decline; and no reply ends the script
\* while it is still asking: an exception needs a loop pass.
C17_NeedPlanIffTrue ==
    /\ pc \notin {"ask_task", "ask_plan"} =>
          (NEED_PLAN <=>
              answer \in { <<"t", "r", "u", "e">>,
                           <<" ", "T", "r", "u", "e", "\t">>,
                           <<"T", "R", "U", "E">> })
    /\ pc \in {"ask_task", "ask_plan", "plan_call", "plan_run", "init_loop"} =>
          fault = "none"
    /\ pc = "fault" => reads # <<>>

C17_Witness ==
    /\ answer = <<" ", "T", "r", "u", "e", "\t">>
    /\ NEED_PLAN
    /\ pc = "plan_run"

\* C18: iteration is 0 when the loop is entered and goes up by exactly one
\* at the start of each pass, before the state is read, so the k-th read
\* sees the value k and the counter always equals the number of reads
\* started; the loop never has made more invocations than the counter says.
C18_IterationCountsReads ==
    /\ [](pc \in {"loop", "iter_call", "iter_run", "status", "done", "fault"} =>
             /\ iteration = Len(reads)
             /\ Cardinality(IterCalls) <= iteration)
    /\ [](\A k \in 1..Len(reads) : reads[k].iteration = k)
    /\ [][(pc = "init_loop" /\ pc' # pc) => iteration' = 0]_vars
    /\ [][iteration' # iteration =>
             /\ pc = "loop"
             /\ iteration' = iteration + 1
             /\ Len(reads') = Len(reads) + 1]_vars

C18_Witness ==
    /\ pc = "fault"
    /\ iteration = 3
    /\ Len(reads) = 3
    /\ Cardinality(IterCalls) = 2

====
